---- MODULE Spec2Model ----
(***************************************************************************)
(* Habit tracker backend (src/app.js, lines 515-757): the streak / XP /    *)
(* freeze-token engine behind the REST handlers.  The state is the         *)
(* persisted state.json document (habits, xp, freezes).  The middleware's  *)
(* loadState, the handler and its saveState are synchronous, so every      *)
(* request is one atomic step on the document.                             *)
(*                                                                         *)
(* Time is an integer number of ticks since the epoch (UTC); one day is    *)
(* DayLen ticks and the server's local time is UTC + off ticks.  A stored  *)
(* lastDone is the number of its UTC calendar day ("YYYY-MM-DD"), NoDate   *)
(* for ''.  The handlers write lastDone with toISOString (UTC) and read    *)
(* it back through the local getters, and the model does the same.         *)
(* Daylight-saving shifts are not modelled: every local day has DayLen     *)
(* ticks.                                                                  *)
(*                                                                         *)
(* habits is the mapping in insertion order, the order of for...in.        *)
(* Imported habits carry well-typed fields: a calendar day or '' for       *)
(* lastDone and a streak in 0..MaxStreak.  The counters are capped in the  *)
(* guards (MaxXp, MaxStreak, MaxFreezes) and the clock stops at MaxNow.    *)
(*                                                                         *)
(* resp is the response to the request handled at the current instant and  *)
(* hist records what that request loaded before its handler ran; both are  *)
(* cleared when the clock moves on.                                        *)
(***************************************************************************)
EXTENDS Integers, Sequences, FiniteSets, TLC

\* ---------------------------------------------------------------- bounds
MaxNow == 6
MaxXp == 55
MaxStreak == 3
MaxFreezes == 2

\* ------------------------------------------------------- program constants
DayLen == 2
FreezeCost == 50
BaseXp == 10
StreakXp == 5
InitFreezes == 1
NoDate == -1
NoCount == -1

Shorts == {"a"}
Offsets == {-1, 0, 1}
FutureDay == (MaxNow \div DayLen) + 2

\* The server: the document of state.json, the clock, the server's offset from
\* UTC, the last response and what its request had loaded.
VARIABLES habits, xp, freezes, now, off, resp, hist

\* Around the server: the step of a scripted run, the requests received and not
\* yet handled, the totals the responses have acknowledged, the client's
\* in-memory state and the results its refresh has received so far.
VARIABLES pc, inflight, ledger, client, refresh

\* The content of the file state.json as someone may have left it, and what
\* loadState made of it.
VARIABLES file, loaded

disk == <<file, loaded>>

around == <<pc, inflight, ledger, client, refresh, disk>>

vars == <<habits, xp, freezes, now, off, resp, hist, around>>

\* ------------------------------------------------------------ calendar
\* date.toISOString().slice(0, 10): the UTC calendar day of an instant.
ToIso(t) == t \div DayLen

\* new Date("YYYY-MM-DD"): the instant of UTC midnight of that day.
ParseIso(d) == d * DayLen

\* getFullYear / getMonth / getDate: the local calendar day of an instant.
LocalDay(t, o) == (t + o) \div DayLen

\* new Date(y, m, d): the instant of local midnight of a local calendar day.
LocalMidnight(d, o) == d * DayLen - o

\* Math.floor((today - lastDate) / msPerDay) for a stored lastDone.
DayDiff(lastDone, t, o) ==
    (LocalMidnight(LocalDay(t, o), o)
       - LocalMidnight(LocalDay(ParseIso(lastDone), o), o)) \div DayLen

\* ------------------------------------------------------------ the document
Habit(short, name, period, count, lastDone, streak) ==
    [short |-> short, name |-> name, period |-> period, count |-> count,
     lastDone |-> lastDone, streak |-> streak]

\* Index of the habit keyed by short in the (insertion-ordered) mapping, or 0.
Idx(hs, short) ==
    IF \E i \in 1..Len(hs) : hs[i].short = short
    THEN CHOOSE i \in 1..Len(hs) : hs[i].short = short
    ELSE 0

Has(hs, short) == Idx(hs, short) # 0

Get(hs, short) == hs[Idx(hs, short)]

\* A delete that also drops every habit stored after the one deleted.
RemoveFromThere(hs, short) == SubSeq(hs, 1, Idx(hs, short) - 1)

\* delete state.habits[short]
Remove(hs, short) ==
    SubSeq(hs, 1, Idx(hs, short) - 1) \o SubSeq(hs, Idx(hs, short) + 1, Len(hs))

\* ------------------------------------------------------------ settlement
\* A sweep that lets a streak stand when a two-day gap finds no token.
SettleOneKeepsStale(h, fz, t, o) ==
    IF h.lastDone = NoDate
    THEN [habit |-> h, freezes |-> fz]
    ELSE LET diff == DayDiff(h.lastDone, t, o)
         IN  IF diff = 2 /\ fz > 0
             THEN [habit |-> h, freezes |-> fz - 1]
             ELSE IF diff > 2
             THEN [habit |-> [h EXCEPT !.streak = 0], freezes |-> fz]
             ELSE [habit |-> h, freezes |-> fz]

\* A sweep that counts a forgiven day as a completion.
SettleOneRewards(h, fz, t, o) ==
    IF h.lastDone = NoDate
    THEN [habit |-> h, freezes |-> fz]
    ELSE LET diff == DayDiff(h.lastDone, t, o)
         IN  IF diff = 2 /\ fz > 0
             THEN [habit |-> [h EXCEPT !.streak = h.streak + 1],
                   freezes |-> fz - 1]
             ELSE IF diff >= 2
             THEN [habit |-> [h EXCEPT !.streak = 0], freezes |-> fz]
             ELSE [habit |-> h, freezes |-> fz]

\* A sweep that spends a token on any gap of two days or more.
SettleOneForgivesLongGap(h, fz, t, o) ==
    IF h.lastDone = NoDate
    THEN [habit |-> h, freezes |-> fz]
    ELSE LET diff == DayDiff(h.lastDone, t, o)
         IN  IF diff >= 2 /\ fz > 0
             THEN [habit |-> h, freezes |-> fz - 1]
             ELSE IF diff >= 2
             THEN [habit |-> [h EXCEPT !.streak = 0], freezes |-> fz]
             ELSE [habit |-> h, freezes |-> fz]

\* One iteration of the loop of updateStreaks.
SettleOne(h, fz, t, o) ==
    IF h.lastDone = NoDate
    THEN [habit |-> h, freezes |-> fz]
    ELSE LET diff == DayDiff(h.lastDone, t, o)
         IN  IF diff = 0 \/ diff = 1
             THEN [habit |-> h, freezes |-> fz]
             ELSE IF diff = 2
             THEN IF fz > 0
                  THEN [habit |-> h, freezes |-> fz - 1]
                  ELSE [habit |-> [h EXCEPT !.streak = 0], freezes |-> fz]
             ELSE IF diff > 2
             THEN [habit |-> [h EXCEPT !.streak = 0], freezes |-> fz]
             ELSE [habit |-> h, freezes |-> fz]

RECURSIVE SweepFrom(_, _, _, _, _)
SweepFrom(hs, fz, t, o, i) ==
    IF i > Len(hs)
    THEN [habits |-> hs, freezes |-> fz]
    ELSE LET r == SettleOne(hs[i], fz, t, o)
         IN  SweepFrom([hs EXCEPT ![i] = r.habit], r.freezes, t, o, i + 1)

\* A sweep in which one token forgives every habit that missed one day.
UpdateStreaksOneForAll(hs, fz, t, o) ==
    [habits |-> [i \in 1..Len(hs) |-> SettleOne(hs[i], fz, t, o).habit],
     freezes |-> IF \E i \in 1..Len(hs) : SettleOne(hs[i], fz, t, o).freezes < fz
                 THEN fz - 1 ELSE fz]

\* updateStreaks(state) at instant t: the habits and the freeze count after it.
UpdateStreaks(hs, fz, t, o) == SweepFrom(hs, fz, t, o, 1)

\* ------------------------------------------------------------ completion
\* An award computed from the streak as if it had not been incremented yet.
XpFromStreakBefore(streak) == BaseXp + streak * StreakXp

\* xpGain = 10 + Math.max(0, habit.streak - 1) * 5
XpForCompletion(streak) ==
    BaseXp + (IF streak - 1 > 0 THEN streak - 1 ELSE 0) * StreakXp

\* A mark-done that forgets the freeze rule: a gap of two days always restarts.
DoneStepNoForgiveness(hasLast, diff, streak, fz) ==
    IF hasLast
    THEN IF diff = 0 THEN [ok |-> FALSE, streak |-> streak, freezes |-> fz]
         ELSE IF diff = 1 THEN [ok |-> TRUE, streak |-> streak + 1, freezes |-> fz]
         ELSE [ok |-> TRUE, streak |-> 1, freezes |-> fz]
    ELSE [ok |-> TRUE, streak |-> 1, freezes |-> fz]

\* A mark-done that forgives any gap of two days or more with a token.
DoneStepForgivesAnyGap(hasLast, diff, streak, fz) ==
    IF hasLast
    THEN IF diff = 0 THEN [ok |-> FALSE, streak |-> streak, freezes |-> fz]
         ELSE IF diff = 1 THEN [ok |-> TRUE, streak |-> streak + 1, freezes |-> fz]
         ELSE IF diff >= 2 /\ fz > 0
         THEN [ok |-> TRUE, streak |-> streak + 1, freezes |-> fz - 1]
         ELSE [ok |-> TRUE, streak |-> 1, freezes |-> fz]
    ELSE [ok |-> TRUE, streak |-> 1, freezes |-> fz]

\* The branches of PUT /habits/:short/done on lastDone and the day gap: whether
\* the request goes through, the new streak and the freeze count.
DoneStep(hasLast, diff, streak, fz) ==
    IF hasLast
    THEN IF diff = 0
         THEN [ok |-> FALSE, streak |-> streak, freezes |-> fz]
         ELSE IF diff = 1
         THEN [ok |-> TRUE, streak |-> streak + 1, freezes |-> fz]
         ELSE IF diff = 2
         THEN IF fz > 0
              THEN [ok |-> TRUE, streak |-> streak + 1, freezes |-> fz - 1]
              ELSE [ok |-> TRUE, streak |-> 1, freezes |-> fz]
         ELSE [ok |-> TRUE, streak |-> 1, freezes |-> fz]
    ELSE [ok |-> TRUE, streak |-> 1, freezes |-> fz]

\* The streak / freeze transition of PUT /habits/:short/done for one habit at
\* instant t; on success lastDone becomes todayIso.
DoneOne(h, fz, t, o) ==
    LET r == DoneStep(h.lastDone # NoDate,
                      IF h.lastDone # NoDate THEN DayDiff(h.lastDone, t, o) ELSE 0,
                      h.streak, fz)
    IN  [ok |-> r.ok, freezes |-> r.freezes,
         habit |-> IF r.ok
                   THEN [h EXCEPT !.streak = r.streak, !.lastDone = ToIso(t)]
                   ELSE h]

\* ------------------------------------------------------------ responses
Resp(route, short, status, error, xpGain) ==
    [route |-> route, short |-> short, status |-> status, error |-> error,
     xpGain |-> xpGain]

NoResp == Resp("", "", 0, "", 0)

\* What the request saw before its handler ran: the loaded counters and, for a
\* request on one habit with a lastDone, that habit's streak and day gap.
Hist(hasGap, gap, streak, x, fz) ==
    [hasGap |-> hasGap, gap |-> gap, streak |-> streak, xp |-> x, freezes |-> fz]

NoHist == Hist(FALSE, 0, 0, 0, 0)

\* What the accepted requests add up to: xp awarded less xp spent, the initial
\* token plus tokens bought less tokens used, and whether some accepted request
\* was handled after state.json had changed since the server received it.
Ledger(x, fz, raced) == [xp |-> x, freezes |-> fz, raced |-> raced]

\* let state = { habits: {}, xp: 0, freezes: 1 } of the client.
Mirror(hs, x, fz) == [habits |-> hs, xp |-> x, freezes |-> fz]

\* The results of the two requests of refreshState, as far as received.
Refresh(hasHabits, hs, hasStatus, x, fz) ==
    [hasHabits |-> hasHabits, habits |-> hs,
     hasStatus |-> hasStatus, xp |-> x, freezes |-> fz]

NoRefresh == Refresh(FALSE, <<>>, FALSE, 0, 0)

\* ------------------------------------------------------------ loadState
\* A JSON value, or undefined for a property that is not there: its kind, its
\* number (for a boolean 0 or 1, for a string its length) and, for an object
\* in the place of the habits, its entries.
Val(kind, num, map) == [kind |-> kind, num |-> num, map |-> map]

Undefined == Val("undefined", 0, <<>>)
JNull == Val("null", 0, <<>>)
JBool(b) == Val("boolean", IF b THEN 1 ELSE 0, <<>>)
JNum(n) == Val("number", n, <<>>)
JStr(len) == Val("string", len, <<>>)
JArr == Val("array", 0, <<>>)
JObj(hs) == Val("object", 0, hs)

\* !v
Falsy(v) ==
    \/ v.kind \in {"undefined", "null"}
    \/ v.kind \in {"boolean", "number", "string"} /\ v.num = 0

\* typeof v
TypeOf(v) == IF v.kind \in {"null", "array"} THEN "object" ELSE v.kind

\* state.json: absent, not JSON, or a JSON value top with, where top has
\* properties, its habits, xp and freezes.
File(state, top, h, x, fz) ==
    [state |-> state, top |-> top, habits |-> h, xp |-> x, freezes |-> fz]

NoFile == File("absent", Undefined, Undefined, Undefined, Undefined)

\* The object loadState returns.
Loaded(h, x, fz) == [habits |-> h, xp |-> x, freezes |-> fz]

NotLoaded == Loaded(Undefined, Undefined, Undefined)

\* return { habits: {}, xp: 0, freezes: 1 }
Defaults == Loaded(JObj(<<>>), JNum(0), JNum(InitFreezes))

\* loadState()
LoadState(f) ==
    IF f.state # "json"
    THEN Defaults
    ELSE IF Falsy(f.top) \/ TypeOf(f.top) # "object"
    THEN Defaults
    ELSE Loaded(IF Falsy(f.habits) \/ TypeOf(f.habits) # "object"
                    THEN JObj(<<>>) ELSE f.habits,
                IF TypeOf(f.xp) # "number" THEN JNum(0) ELSE f.xp,
                IF TypeOf(f.freezes) # "number" THEN JNum(InitFreezes)
                    ELSE f.freezes)

\* ------------------------------------------------------------ handlers
\* GET /status and GET /habits: updateStreaks(req.state); saveState(req.state).
Settle(route) ==
    LET r == UpdateStreaks(habits, freezes, now, off)
    IN  /\ habits' = r.habits
        /\ freezes' = r.freezes
        /\ resp' = Resp(route, "", 200, "", 0)
        /\ hist' = Hist(FALSE, 0, 0, xp, freezes)
        /\ UNCHANGED <<xp, now, off>>

GetStatus == Settle("status")

ListHabits == Settle("habits")

\* count: (period === 'times per week' && Number.isFinite(count)) ? count : null
AddCount(period, count) ==
    IF period = "times per week" /\ count # NoCount THEN count ELSE NoCount

\* GET /habits/:short
GetHabit(short) ==
    /\ resp' = IF Has(habits, short) THEN Resp("get", short, 200, "", 0)
               ELSE Resp("get", short, 404, "Not found", 0)
    /\ hist' = Hist(FALSE, 0, 0, xp, freezes)
    /\ UNCHANGED <<habits, xp, freezes, now, off>>

\* GET /export
Export ==
    /\ resp' = Resp("export", "", 200, "", 0)
    /\ hist' = Hist(FALSE, 0, 0, xp, freezes)
    /\ UNCHANGED <<habits, xp, freezes, now, off>>

\* An add that overwrites a habit already stored under the short.
AddHabitOverwrites(short, name, period, count) ==
    /\ hist' = Hist(FALSE, 0, 0, xp, freezes)
    /\ UNCHANGED <<xp, freezes, now, off>>
    /\ IF short = "" \/ name = ""
       THEN /\ resp' = Resp("add", short, 400, "Short and name are required", 0)
            /\ UNCHANGED habits
       ELSE /\ habits' = Append(IF Has(habits, short) THEN Remove(habits, short)
                                ELSE habits,
                   Habit(short, name, period, AddCount(period, count), NoDate, 0))
            /\ resp' = Resp("add", short, 200, "", 0)

\* POST /habits
AddHabit(short, name, period, count) ==
    /\ hist' = Hist(FALSE, 0, 0, xp, freezes)
    /\ UNCHANGED <<xp, freezes, now, off>>
    /\ IF short = "" \/ name = ""
       THEN /\ resp' = Resp("add", short, 400, "Short and name are required", 0)
            /\ UNCHANGED habits
       ELSE IF Has(habits, short)
       THEN /\ resp' = Resp("add", short, 400, "Habit already exists", 0)
            /\ UNCHANGED habits
       ELSE /\ habits' = Append(habits,
                   Habit(short, name, period, AddCount(period, count), NoDate, 0))
            /\ resp' = Resp("add", short, 200, "", 0)

\* A mark-done that also runs the settlement sweep over the habits.
MarkDoneSweeps(short) ==
    /\ UNCHANGED <<now, off>>
    /\ IF ~Has(habits, short)
       THEN /\ resp' = Resp("done", short, 404, "Habit not found", 0)
            /\ hist' = Hist(FALSE, 0, 0, xp, freezes)
            /\ UNCHANGED <<habits, xp, freezes>>
       ELSE LET h == Get(habits, short)
                r == DoneOne(h, freezes, now, off)
                xpGain == XpForCompletion(r.habit.streak)
            IN  /\ hist' = Hist(h.lastDone # NoDate, 0, h.streak, xp, freezes)
                /\ IF ~r.ok
                   THEN /\ resp' = Resp("done", short, 400,
                                        "Already marked done today", 0)
                        /\ UNCHANGED <<habits, xp, freezes>>
                   ELSE /\ xp + xpGain <= MaxXp
                        /\ r.habit.streak <= MaxStreak
                        /\ habits' = UpdateStreaks(
                               [habits EXCEPT ![Idx(habits, short)] = r.habit],
                               0, now, off).habits
                        /\ freezes' = r.freezes
                        /\ xp' = xp + xpGain
                        /\ resp' = Resp("done", short, 200, "", xpGain)

\* PUT /habits/:short/done
MarkDone(short) ==
    /\ UNCHANGED <<now, off>>
    /\ IF ~Has(habits, short)
       THEN /\ resp' = Resp("done", short, 404, "Habit not found", 0)
            /\ hist' = Hist(FALSE, 0, 0, xp, freezes)
            /\ UNCHANGED <<habits, xp, freezes>>
       ELSE LET h == Get(habits, short)
                r == DoneOne(h, freezes, now, off)
                xpGain == XpForCompletion(r.habit.streak)
            IN  /\ hist' = IF h.lastDone # NoDate
                           THEN Hist(TRUE, DayDiff(h.lastDone, now, off),
                                     h.streak, xp, freezes)
                           ELSE Hist(FALSE, 0, h.streak, xp, freezes)
                /\ IF ~r.ok
                   THEN /\ resp' = Resp("done", short, 400,
                                        "Already marked done today", 0)
                        /\ UNCHANGED <<habits, xp, freezes>>
                   ELSE /\ xp + xpGain <= MaxXp
                        /\ r.habit.streak <= MaxStreak
                        /\ habits' = [habits EXCEPT ![Idx(habits, short)] = r.habit]
                        /\ freezes' = r.freezes
                        /\ xp' = xp + xpGain
                        /\ resp' = Resp("done", short, 200, "", xpGain)

\* DELETE /habits/:short
DeleteHabit(short) ==
    /\ hist' = Hist(FALSE, 0, 0, xp, freezes)
    /\ UNCHANGED <<xp, freezes, now, off>>
    /\ IF ~Has(habits, short)
       THEN /\ resp' = Resp("delete", short, 404, "Habit not found", 0)
            /\ UNCHANGED habits
       ELSE /\ habits' = Remove(habits, short)
            /\ resp' = Resp("delete", short, 200, "", 0)

\* A purchase that never checks the funds.
PurchaseUnchecked(x, fz) == [ok |-> TRUE, xp |-> x - FreezeCost, freezes |-> fz + 1]

\* A purchase that also refuses xp = 50.
PurchaseOffByOne(x, fz) ==
    IF x <= FreezeCost
    THEN [ok |-> FALSE, xp |-> x, freezes |-> fz]
    ELSE [ok |-> TRUE, xp |-> x - FreezeCost, freezes |-> fz + 1]

\* The counters after POST /freeze, and whether the purchase went through.
Purchase(x, fz) ==
    IF x < FreezeCost
    THEN [ok |-> FALSE, xp |-> x, freezes |-> fz]
    ELSE [ok |-> TRUE, xp |-> x - FreezeCost, freezes |-> fz + 1]

\* POST /freeze
BuyFreeze ==
    LET r == Purchase(xp, freezes)
    IN  /\ r.freezes <= MaxFreezes
        /\ hist' = Hist(FALSE, 0, 0, xp, freezes)
        /\ xp' = r.xp
        /\ freezes' = r.freezes
        /\ resp' = IF r.ok THEN Resp("freeze", "", 200, "", 0)
                   ELSE Resp("freeze", "", 400, "Not enough XP", 0)
        /\ UNCHANGED <<habits, now, off>>

\* One entry of the loop of POST /import.
ImportOne(h) ==
    Habit(h.short, h.name, h.period, h.count, h.lastDone, h.streak)

\* An import that wipes the stored state before it rejects a bad body.
ImportWipesOnReject(hasHabits, hs) ==
    /\ hist' = Hist(FALSE, 0, 0, xp, freezes)
    /\ UNCHANGED <<now, off>>
    /\ xp' = 0
    /\ freezes' = InitFreezes
    /\ IF ~hasHabits
       THEN /\ resp' = Resp("import", "", 400, "Habits object required", 0)
            /\ habits' = <<>>
       ELSE /\ habits' = [i \in 1..Len(hs) |-> ImportOne(hs[i])]
            /\ resp' = Resp("import", "", 200, "", 0)

\* An import that replaces the habits but keeps the counters.
ImportKeepsCounters(hasHabits, hs) ==
    /\ hist' = Hist(FALSE, 0, 0, xp, freezes)
    /\ UNCHANGED <<xp, freezes, now, off>>
    /\ IF ~hasHabits
       THEN /\ resp' = Resp("import", "", 400, "Habits object required", 0)
            /\ UNCHANGED habits
       ELSE /\ habits' = [i \in 1..Len(hs) |-> ImportOne(hs[i])]
            /\ resp' = Resp("import", "", 200, "", 0)

\* POST /import; hasHabits is whether the body carries a habits object.
Import(hasHabits, hs) ==
    /\ hist' = Hist(FALSE, 0, 0, xp, freezes)
    /\ UNCHANGED <<now, off>>
    /\ IF ~hasHabits
       THEN /\ resp' = Resp("import", "", 400, "Habits object required", 0)
            /\ UNCHANGED <<habits, xp, freezes>>
       ELSE /\ habits' = [i \in 1..Len(hs) |-> ImportOne(hs[i])]
            /\ xp' = 0
            /\ freezes' = InitFreezes
            /\ resp' = Resp("import", "", 200, "", 0)

\* The clock moves on; the response of the last request has been delivered.
Tick ==
    /\ now < MaxNow
    /\ now' = now + 1
    /\ resp' = NoResp
    /\ hist' = NoHist
    /\ UNCHANGED <<habits, xp, freezes, off>>

\* ------------------------------------------------------------ inputs
Names == {"", "n"}
Periods == {"daily", "times per week"}
Counts == {NoCount, 3}
ImportDates == {NoDate, 0, FutureDay}

ImportHabits(short) ==
    {Habit(short, "n", "daily", NoCount, d, s) :
        d \in ImportDates, s \in 0..MaxStreak}

Payloads == {<<>>} \cup {<<h>> : h \in ImportHabits("a")}

\* ------------------------------------------------------------ specification
Init ==
    /\ habits = <<>>
    /\ xp = 0
    /\ freezes = InitFreezes
    /\ now = 0
    /\ off \in Offsets
    /\ resp = NoResp
    /\ hist = NoHist
    /\ pc = 0
    /\ inflight = {}
    /\ ledger = Ledger(0, InitFreezes, FALSE)
    /\ client = Mirror(<<>>, 0, InitFreezes)
    /\ refresh = NoRefresh
    /\ file = NoFile
    /\ loaded = NotLoaded

\* The requests handled one at a time, each to completion.
Next ==
    \/ GetStatus /\ UNCHANGED around
    \/ ListHabits /\ UNCHANGED around
    \/ \E s \in Shorts \cup {""}, n \in Names, p \in Periods, c \in Counts :
          AddHabit(s, n, p, c) /\ UNCHANGED around
    \/ \E s \in Shorts : MarkDone(s) /\ UNCHANGED around
    \/ \E s \in Shorts : DeleteHabit(s) /\ UNCHANGED around
    \/ BuyFreeze /\ UNCHANGED around
    \/ \E s \in Shorts : GetHabit(s) /\ UNCHANGED around
    \/ Export /\ UNCHANGED around
    \/ \E hs \in Payloads : Import(TRUE, hs) /\ UNCHANGED around
    \/ Import(FALSE, <<>>) /\ UNCHANGED around
    \/ Tick /\ UNCHANGED around

Spec == Init /\ [][Next]_vars

\* ------------------------------------------- specification: two habits
\* The requests that create, complete and delete habits, over two shorts, so
\* that a request on one habit has another habit to leave alone.
Pair == {"a", "b"}

NextPair ==
    \/ \E s \in Pair \cup {""}, n \in Names :
          AddHabit(s, n, "daily", NoCount) /\ UNCHANGED around
    \/ \E s \in Pair : MarkDone(s) /\ UNCHANGED around
    \/ \E s \in Pair : DeleteHabit(s) /\ UNCHANGED around
    \/ Tick /\ UNCHANGED around

SpecPair == Init /\ [][NextPair]_vars

\* ------------------------------------------- specification: scripted run
\* One client on one habit: add it, list the habits, then mark it done once on
\* each of the local days of ScriptDays, at any instant of that day.
ScriptDays == <<1, 2, 4, 7>>

ScriptEnd == (ScriptDays[Len(ScriptDays)] + 1) * DayLen + 1

ScriptAdd ==
    /\ pc = 0
    /\ LocalDay(now, off) < ScriptDays[1]
    /\ AddHabit("a", "n", "daily", NoCount)
    /\ pc' = 1
    /\ UNCHANGED <<inflight, ledger, client, refresh, disk>>

ScriptList ==
    /\ pc = 1
    /\ ListHabits
    /\ pc' = 2
    /\ UNCHANGED <<inflight, ledger, client, refresh, disk>>

ScriptDone ==
    /\ pc \in 2..(Len(ScriptDays) + 1)
    /\ LocalDay(now, off) = ScriptDays[pc - 1]
    /\ MarkDone("a")
    /\ pc' = pc + 1
    /\ UNCHANGED <<inflight, ledger, client, refresh, disk>>

ScriptTick ==
    /\ now < ScriptEnd
    /\ now' = now + 1
    /\ resp' = NoResp
    /\ hist' = NoHist
    /\ UNCHANGED <<habits, xp, freezes, off, around>>

NextScript == ScriptAdd \/ ScriptList \/ ScriptDone \/ ScriptTick

SpecScript == Init /\ [][NextScript]_vars

\* ------------------------------------------- specification: one client
\* A request received by the server and not yet handled.
Req(route, short) == [route |-> route, short |-> short]

Idle == inflight = {} /\ refresh = NoRefresh

\* What the one client does between two refreshes.
ClientAdd ==
    /\ Idle
    /\ AddHabit("a", "n", "daily", NoCount)
    /\ UNCHANGED around

ClientDone ==
    /\ Idle
    /\ MarkDone("a")
    /\ UNCHANGED around

ClientTick ==
    /\ Idle
    /\ Tick
    /\ UNCHANGED around

\* refreshState: Promise.all([api('/habits'), api('/status')]) sends both.
StartRefresh ==
    /\ Idle
    /\ inflight' = {Req("habits", ""), Req("status", "")}
    /\ UNCHANGED <<habits, xp, freezes, now, off, resp, hist,
                   pc, ledger, client, refresh, disk>>

\* The server handles GET /habits: res.json(req.state.habits).
ServeHabits ==
    /\ Req("habits", "") \in inflight
    /\ ListHabits
    /\ inflight' = inflight \ {Req("habits", "")}
    /\ refresh' = [refresh EXCEPT !.hasHabits = TRUE, !.habits = habits']
    /\ UNCHANGED <<pc, ledger, client, disk>>

\* The server handles GET /status: res.json({ xp, freezes, longestStreak }).
ServeStatus ==
    /\ Req("status", "") \in inflight
    /\ GetStatus
    /\ inflight' = inflight \ {Req("status", "")}
    /\ refresh' = [refresh EXCEPT !.hasStatus = TRUE, !.xp = xp',
                                  !.freezes = freezes']
    /\ UNCHANGED <<pc, ledger, client, disk>>

\* Both promises have resolved: state.habits = habits; state.xp = status.xp;
\* state.freezes = status.freezes.
FinishRefresh ==
    /\ refresh.hasHabits
    /\ refresh.hasStatus
    /\ client' = Mirror(refresh.habits, refresh.xp, refresh.freezes)
    /\ refresh' = NoRefresh
    /\ UNCHANGED <<habits, xp, freezes, now, off, resp, hist,
                   pc, inflight, ledger, disk>>

NextClient ==
    \/ ClientAdd
    \/ ClientDone
    \/ ClientTick
    \/ StartRefresh
    \/ ServeHabits
    \/ ServeStatus
    \/ FinishRefresh

SpecClient == Init /\ [][NextClient]_vars

\* --------------------------------- specification: requests in flight
\* Several requests are with the server at once. express.json() (line 608)
\* reads a request's body asynchronously; the middleware that loads the state,
\* the route handler and saveState then run in one turn of the event loop
\* (readFileSync, no await, writeFileSync).
MaxInflight == 2

\* The content of state.json.
Doc(hs, x, fz) == [habits |-> hs, xp |-> x, freezes |-> fz]

\* A request the server has received; seen is state.json as it was then.
ConcReq(id, route, short, seen) ==
    [id |-> id, route |-> route, short |-> short, seen |-> seen]

\* What a handler leaves: the state it holds and the response it sends.
Outcome(doc, status, error, xpGain) ==
    [doc |-> doc, status |-> status, error |-> error, xpGain |-> xpGain]

\* A server that loads the state when the request arrives, before its body
\* has been read.
ReqStateAtReceipt(q, cur) == q.seen

\* req.state = loadState(), in the turn that runs the handler: state.json as
\* it is then.
ReqState(q, cur) == cur

\* The handlers of POST /habits and PUT /habits/:short/done as functions of
\* req.state.
HandleReq(q, st, t, o) ==
    IF q.route = "add"
    THEN IF Has(st.habits, q.short)
         THEN Outcome(st, 400, "Habit already exists", 0)
         ELSE Outcome(Doc(Append(st.habits,
                                 Habit(q.short, "n", "daily",
                                       AddCount("daily", NoCount), NoDate, 0)),
                          st.xp, st.freezes),
                      200, "", 0)
    ELSE IF ~Has(st.habits, q.short)
    THEN Outcome(st, 404, "Habit not found", 0)
    ELSE LET r == DoneOne(Get(st.habits, q.short), st.freezes, t, o)
             xpGain == XpForCompletion(r.habit.streak)
         IN  IF ~r.ok
             THEN Outcome(st, 400, "Already marked done today", 0)
             ELSE Outcome(Doc([st.habits EXCEPT
                                  ![Idx(st.habits, q.short)] = r.habit],
                              st.xp + xpGain, r.freezes),
                          200, "", xpGain)

\* The server receives a request and starts reading its body.
Receive(id, route, short) ==
    /\ Cardinality(inflight) < MaxInflight
    /\ \A q \in inflight : q.id # id
    /\ \A j \in 1..(id - 1) : \E q \in inflight : q.id = j
    /\ inflight' = inflight \cup
                      {ConcReq(id, route, short, Doc(habits, xp, freezes))}
    /\ UNCHANGED <<habits, xp, freezes, now, off, resp, hist,
                   pc, ledger, client, refresh, disk>>

\* The body of q is in: load, handle and, unless rejected, save, in one turn.
Handle(q) ==
    LET cur == Doc(habits, xp, freezes)
        st == ReqState(q, cur)
        r == HandleReq(q, st, now, off)
    IN  /\ r.doc.xp <= MaxXp
        /\ r.doc.freezes <= MaxFreezes
        /\ \A i \in 1..Len(r.doc.habits) : r.doc.habits[i].streak <= MaxStreak
        /\ IF r.status = 200
           THEN /\ habits' = r.doc.habits
                /\ xp' = r.doc.xp
                /\ freezes' = r.doc.freezes
                /\ ledger' = Ledger(ledger.xp + (r.doc.xp - st.xp),
                                    ledger.freezes + (r.doc.freezes - st.freezes),
                                    ledger.raced \/ q.seen # cur)
           ELSE UNCHANGED <<habits, xp, freezes, ledger>>
        /\ resp' = Resp(q.route, q.short, r.status, r.error, r.xpGain)
        /\ hist' = Hist(FALSE, 0, 0, st.xp, st.freezes)
        /\ inflight' = inflight \ {q}
        /\ UNCHANGED <<now, off, pc, client, refresh, disk>>

ConcRoutes == {<<"add", "a">>, <<"done", "a">>}

NextConc ==
    \/ \E id \in 1..MaxInflight, rs \in ConcRoutes : Receive(id, rs[1], rs[2])
    \/ \E q \in inflight : Handle(q)
    \/ Tick /\ UNCHANGED around

\* The event loop runs the handler of every request whose body is in.
SpecConc ==
    /\ Init
    /\ [][NextConc]_vars
    /\ WF_vars(\E q \in inflight : Handle(q))

\* ------------------------------------------- specification: loadState
\* What may stand in the place of a property of the stored object.
Scalars == {Undefined, JNull, JBool(FALSE), JBool(TRUE), JNum(0), JNum(7),
            JStr(0), JStr(2)}

HabitsValues ==
    Scalars \cup {JArr, JObj(<<>>),
                  JObj(<<Habit("a", "n", "daily", NoCount, 0, 1)>>)}

NumberValues == {Undefined, JNull, JNum(0), JNum(7), JStr(2), JArr}

Files ==
    {NoFile, File("garbage", Undefined, Undefined, Undefined, Undefined)}
      \cup {File("json", v, Undefined, Undefined, Undefined) :
               v \in (Scalars \ {Undefined}) \cup {JArr}}
      \cup {File("json", JObj(<<>>), h, x, fz) :
               h \in HabitsValues, x \in NumberValues, fz \in NumberValues}

\* Someone leaves state.json with some content.
PutFile(f) ==
    /\ file' = f
    /\ loaded' = NotLoaded
    /\ UNCHANGED <<habits, xp, freezes, now, off, resp, hist,
                   pc, inflight, ledger, client, refresh>>

\* A request comes in: req.state = loadState().
Load ==
    /\ loaded' = LoadState(file)
    /\ UNCHANGED <<habits, xp, freezes, now, off, resp, hist,
                   pc, inflight, ledger, client, refresh, file>>

NextLoad ==
    \/ \E f \in Files : PutFile(f)
    \/ Load

SpecLoad == Init /\ [][NextLoad]_vars

\* --------------------------------- specification: two habits, swept
\* Two habits are added and completed, tokens are bought, and GET /status
\* sweeps both habits in one pass.
NextSweep ==
    \/ \E s \in Pair : AddHabit(s, "n", "daily", NoCount) /\ UNCHANGED around
    \/ \E s \in Pair : MarkDone(s) /\ UNCHANGED around
    \/ BuyFreeze /\ UNCHANGED around
    \/ GetStatus /\ UNCHANGED around
    \/ Tick /\ UNCHANGED around

SpecSweep == Init /\ [][NextSweep]_vars

\* --------------------------- specification: two habits, one in the future
\* The requests of NextPair, and an import that stores habit a with a lastDone
\* beyond the clock next to habit b done on day 0.
FuturePayloads ==
    {<<Habit("a", "n", "daily", NoCount, FutureDay, s),
       Habit("b", "n", "daily", NoCount, 0, 1)>> : s \in {0, 2}}

NextFuture ==
    \/ NextPair
    \/ \E hs \in FuturePayloads : Import(TRUE, hs) /\ UNCHANGED around

SpecFuture == Init /\ [][NextFuture]_vars

\* ------------------------------------------------------------ properties
DoneOk(short) ==
    resp.route = "done" /\ resp.status = 200 /\ resp.short = short

Swept == resp.route \in {"status", "habits"}

\* The freeze count the loop of updateStreaks holds when it reaches habit i.
FreezesAt(hs, fz, t, o, i) == UpdateStreaks(SubSeq(hs, 1, i - 1), fz, t, o).freezes

GapIs(h, t, o, n) == h.lastDone # NoDate /\ DayDiff(h.lastDone, t, o) = n

\* The loop of updateStreaks consumes a freeze token on behalf of habit i.
ChargedFor(hs, fz, t, o, i) ==
    GapIs(hs[i], t, o, 2) /\ FreezesAt(hs, fz, t, o, i) > 0

\* C1: the settlement sweep (updateStreaks, then save) is idempotent: on a
\* fixed day, running it twice from any reachable state leaves the same
\* habits, xp and freeze tokens as running it once.
C1_SweepIdempotent ==
    LET once == UpdateStreaks(habits, freezes, now, off)
        twice == UpdateStreaks(once.habits, once.freezes, now, off)
    IN  twice.habits = once.habits /\ twice.freezes = once.freezes

\* C2: once a habit has been marked done successfully, every further
\* mark-done of it at an instant of the same local calendar day is rejected
\* (and a rejected mark-done changes nothing).
C2_SecondDoneRejected ==
    \A s \in Shorts :
        DoneOk(s) =>
            \A t \in now..MaxNow :
                LocalDay(t, off) = LocalDay(now, off) =>
                    ~DoneOne(Get(habits, s), freezes, t, off).ok

\* C3: every habit without a lastDone has streak 0, in every reachable state.
C3_NoLastDoneNoStreak ==
    \A i \in 1..Len(habits) :
        habits[i].lastDone = NoDate => habits[i].streak = 0

\* C4: a successful mark-done at a gap of exactly two days consumes exactly
\* one freeze token and adds 1 to the streak when a token is available, and
\* otherwise sets the streak to 1 and leaves the token count at 0.
C4_GapTwoDone ==
    \A s \in Shorts :
        (DoneOk(s) /\ hist.hasGap /\ hist.gap = 2) =>
            IF hist.freezes > 0
            THEN /\ freezes = hist.freezes - 1
                 /\ Get(habits, s).streak = hist.streak + 1
            ELSE /\ freezes = 0
                 /\ Get(habits, s).streak = 1

C4_Witness ==
    /\ DoneOk("a") /\ hist.hasGap /\ hist.gap = 2
    /\ hist.freezes = 1 /\ freezes = 0
    /\ hist.streak >= 1 /\ Get(habits, "a").streak = hist.streak + 1

\* C5: for a habit at a gap of exactly two days with a freeze token
\* available, mark-done yields the previous streak + 1 whether or not a
\* settlement sweep ran earlier that day.
C5_SameOnBothPaths ==
    \A s \in Shorts :
        (Has(habits, s) /\ GapIs(Get(habits, s), now, off, 2) /\ freezes > 0) =>
            LET h == Get(habits, s)
                direct == DoneOne(h, freezes, now, off)
                swept == UpdateStreaks(habits, freezes, now, off)
                after == DoneOne(Get(swept.habits, s), swept.freezes, now, off)
            IN  /\ direct.habit.streak = h.streak + 1
                /\ after.habit.streak = h.streak + 1

\* C6: a freeze token forgives exactly one missed day: once a sweep has
\* consumed a token for a habit's missed day, a second sweep on that day
\* neither consumes another token for it nor resets its streak, and a
\* mark-done on that day consumes no further token and continues the streak
\* (previous streak + 1) instead of restarting it at 1.
C6_OneTokenPerMissedDay ==
    \A i \in 1..Len(habits) :
        ChargedFor(habits, freezes, now, off, i) =>
            LET once == UpdateStreaks(habits, freezes, now, off)
                twice == UpdateStreaks(once.habits, once.freezes, now, off)
                done == DoneOne(once.habits[i], once.freezes, now, off)
            IN  /\ ~ChargedFor(once.habits, once.freezes, now, off, i)
                /\ twice.habits[i].streak = habits[i].streak
                /\ done.freezes = once.freezes
                /\ done.habit.streak = habits[i].streak + 1

\* C7: a successful mark-done at a gap of exactly one day adds exactly 1 to
\* the streak and 10 + (newStreak - 1) * 5 to xp, and leaves the freeze
\* tokens alone.
C7_GapOneDone ==
    \A s \in Shorts :
        (DoneOk(s) /\ hist.hasGap /\ hist.gap = 1) =>
            /\ Get(habits, s).streak = hist.streak + 1
            /\ xp = hist.xp + 10 + (Get(habits, s).streak - 1) * 5
            /\ resp.xpGain = xp - hist.xp
            /\ freezes = hist.freezes

C7_Witness ==
    /\ DoneOk("a") /\ hist.hasGap /\ hist.gap = 1
    /\ hist.streak = 2 /\ Get(habits, "a").streak = 3
    /\ xp = hist.xp + 20

\* C8: a successful mark-done at a gap of three or more days sets the streak
\* to 1 whatever the freeze-token count, and consumes no token.
C8_GapThreeDone ==
    \A s \in Shorts :
        (DoneOk(s) /\ hist.hasGap /\ hist.gap >= 3) =>
            /\ Get(habits, s).streak = 1
            /\ freezes = hist.freezes

C8_Witness ==
    /\ DoneOk("a") /\ hist.hasGap /\ hist.gap >= 3
    /\ hist.freezes > 0 /\ hist.streak > 1
    /\ Get(habits, "a").streak = 1

\* C9: xp and the freeze-token count are never negative.
C9_NonNegative == xp >= 0 /\ freezes >= 0

C9_Witness ==
    /\ resp.route = "freeze" /\ resp.status = 400
    /\ freezes = 0 /\ xp > 0 /\ xp < FreezeCost

\* C10: POST /freeze is rejected and changes nothing when xp < 50; otherwise
\* it takes exactly 50 xp, adds exactly one freeze token and leaves the
\* habits alone.
C10_PurchaseFreeze ==
    [][resp'.route = "freeze" =>
          IF xp < 50
          THEN /\ resp'.status = 400 /\ resp'.error = "Not enough XP"
               /\ UNCHANGED <<habits, xp, freezes>>
          ELSE /\ resp'.status = 200
               /\ xp' = xp - 50
               /\ freezes' = freezes + 1
               /\ UNCHANGED habits]_vars

C10_Witness ==
    /\ resp.route = "freeze" /\ resp.status = 200
    /\ hist.xp = 50 /\ xp = 0 /\ freezes = hist.freezes + 1
    /\ Len(habits) > 0

\* The habits of hs whose streak is positive and whose gap at instant t is n.
Standing(hs, t, o, n) ==
    {i \in 1..Len(hs) : GapIs(hs[i], t, o, n) /\ hs[i].streak > 0}

\* C11: when GET /status or GET /habits returns, every habit whose last
\* completion is more than two days back has streak 0, and every habit whose
\* last completion is exactly two days back has streak 0 or had a freeze token
\* consumed for it by this sweep.
C11_SettledAfterRead ==
    [][resp'.route \in {"status", "habits"} =>
        /\ \A i \in 1..Len(habits') :
              (/\ habits'[i].lastDone # NoDate
               /\ DayDiff(habits'[i].lastDone, now', off') > 2)
                  => habits'[i].streak = 0
        /\ Cardinality(Standing(habits', now', off', 2)) <= freezes - freezes'
      ]_vars

\* A read returned with a two-day-old streak kept by a token of this sweep.
C11_Witness ==
    /\ Swept
    /\ Standing(habits, now, off, 2) # {}
    /\ freezes = hist.freezes - 1

ImportOk == resp.route = "import" /\ resp.status = 200

\* C12: an accepted import replaces the whole habit mapping with the supplied
\* one and leaves xp = 0 and one freeze token, whatever they were before.
C12_ImportResets ==
    ImportOk => /\ xp = 0
                /\ freezes = InitFreezes
                /\ habits \in Payloads

\* An import accepted while xp was positive and the tokens were not one.
C12_Witness ==
    /\ ImportOk
    /\ hist.xp > 0
    /\ hist.freezes # InitFreezes

\* C13: in every reachable state each habit has a count exactly when its
\* period is 'times per week'.
C13_CountIffWeekly ==
    \A i \in 1..Len(habits) :
        (habits[i].count # NoCount) <=> (habits[i].period = "times per week")

\* C17: the settlement sweep only decays: it leaves every lastDone (and every
\* other field but the streak) as it was, raises no streak, leaves xp as it was
\* and raises no freeze count; a habit last done today or yesterday is left
\* exactly as it was.
C17_SweepOnlyDecays ==
    [][resp'.route \in {"status", "habits"} =>
        /\ xp' = xp
        /\ freezes' <= freezes
        /\ Len(habits') = Len(habits)
        /\ \A i \in 1..Len(habits) :
              /\ habits'[i] = [habits[i] EXCEPT !.streak = habits'[i].streak]
              /\ habits'[i].streak <= habits[i].streak
              /\ (GapIs(habits[i], now, off, 0) \/ GapIs(habits[i], now, off, 1))
                    => habits'[i] = habits[i]
      ]_vars

\* A sweep has just taken a token and left a two-day-old streak standing.
C17_Witness ==
    /\ Swept
    /\ freezes < hist.freezes
    /\ \E i \in 1..Len(habits) :
          GapIs(habits[i], now, off, 2) /\ habits[i].streak = MaxStreak

\* C18: after a successful mark-done the stored lastDone is the calendar day
\* the gap computation takes as today: the gap computed at that instant is 0,
\* whatever the offset between the local and the UTC day.
C18_StoredDayIsToday ==
    \A s \in Shorts :
        DoneOk(s) => DayDiff(Get(habits, s).lastDone, now, off) = 0

\* C20: in the sweep a habit with a gap over two days gets streak 0 and no
\* token is consumed for it, and a habit whose lastDone lies in the future is
\* left as it was with no token consumed: the sweep takes no more tokens than
\* there are habits with a gap of exactly two days.
C20_LongGapAndFuture ==
    [][resp'.route \in {"status", "habits"} =>
        /\ \A i \in 1..Len(habits) :
              /\ (habits[i].lastDone # NoDate
                  /\ DayDiff(habits[i].lastDone, now, off) > 2)
                    => habits'[i] = [habits[i] EXCEPT !.streak = 0]
              /\ (habits[i].lastDone # NoDate
                  /\ DayDiff(habits[i].lastDone, now, off) < 0)
                    => habits'[i] = habits[i]
        /\ freezes - freezes'
             <= Cardinality({i \in 1..Len(habits) : GapIs(habits[i], now, off, 2)})
      ]_vars

\* A sweep has met a gap of more than two days while tokens were at hand.
C20_Witness ==
    /\ Swept
    /\ hist.freezes > 0
    /\ freezes = hist.freezes
    /\ \E i \in 1..Len(habits) :
          /\ habits[i].lastDone # NoDate
          /\ DayDiff(habits[i].lastDone, now, off) > 2
          /\ habits[i].streak = 0

\* A sweep has met a lastDone in the future while tokens were at hand.
C20_FutureSwept ==
    /\ Swept
    /\ hist.freezes > 0
    /\ \E i \in 1..Len(habits) :
          /\ habits[i].lastDone # NoDate
          /\ DayDiff(habits[i].lastDone, now, off) < 0
          /\ habits[i].streak > 0

\* C14: POST /habits with a blank short or name is rejected; with a short
\* already present it is rejected and the stored habits stay as they were;
\* otherwise exactly one habit is appended, with streak 0 and no lastDone,
\* and xp, freezes and every other habit are unchanged.
C14_AddHabit ==
    [][resp'.route = "add" =>
        /\ xp' = xp
        /\ freezes' = freezes
        /\ resp'.status \in {200, 400}
        /\ (resp'.short = "" \/ Has(habits, resp'.short)) => resp'.status = 400
        /\ resp'.status = 400 => habits' = habits
        /\ resp'.status = 200 =>
              /\ Len(habits') = Len(habits) + 1
              /\ SubSeq(habits', 1, Len(habits)) = habits
              /\ habits'[Len(habits')].short = resp'.short
              /\ habits'[Len(habits')].name # ""
              /\ habits'[Len(habits')].streak = 0
              /\ habits'[Len(habits')].lastDone = NoDate
      ]_vars

\* A habit has been added next to one that already has a streak.
C14_Witness ==
    /\ resp.route = "add"
    /\ resp.status = 200
    /\ Len(habits) = 2
    /\ habits[1].streak > 0
    /\ xp > 0

\* C15: from the initial state (xp 0, one token) a new habit lists with streak
\* 0; done on day 1 gives streak 1 and xp 10; done on day 2 gives streak 2 and
\* xp 25; with day 3 skipped, done on day 4 takes the token and gives streak 3
\* and xp 45; with two more days skipped, done gives streak 1 and xp 55.
C15_Scenario ==
    pc >= 1 =>
        LET h == Get(habits, "a")
        IN  /\ pc \in {1, 2} => h.streak = 0 /\ xp = 0 /\ freezes = InitFreezes
            /\ pc = 3 => h.streak = 1 /\ xp = 10 /\ freezes = InitFreezes
            /\ pc = 4 => h.streak = 2 /\ xp = 25 /\ freezes = InitFreezes
            /\ pc = 5 => h.streak = 3 /\ xp = 45 /\ freezes = 0
            /\ pc = 6 => h.streak = 1 /\ xp = 55 /\ freezes = 0

\* C19: when refreshState completes and no one else has acted meanwhile, the
\* client's habits, xp and freezes are the server's persisted habits, xp and
\* freezes, in whichever order the server handled the two requests.
C19_MirrorFaithful ==
    [][(refresh.hasHabits /\ refresh.hasStatus /\ refresh' = NoRefresh)
          => client' = Mirror(habits', xp', freezes')]_vars

\* The persisted counters are not what the accepted requests add up to.
Lost == xp # ledger.xp \/ freezes # ledger.freezes

\* C16 (as claimed): when two requests are with the server at once, their
\* load and save steps interleave and a mutation one of them persisted is
\* overwritten and lost by the other's save.
C16_UpdateLost == (Cardinality(inflight) = MaxInflight) ~> Lost

\* C16 (as the code has it): the load, the handler and the save of a request
\* run in one turn, so requests that are with the server at once are handled
\* one after another and the persisted xp and freezes are always what the
\* accepted requests add up to: no persisted mutation is overwritten.
C16_NoUpdateLost == ~Lost

\* A request was accepted although state.json had changed since the server
\* received it, and its mutation and the earlier ones are all persisted.
C16_Witness ==
    /\ ledger.raced
    /\ resp.status = 200
    /\ resp.route = "done"
    /\ xp = ledger.xp
    /\ xp >= 2 * BaseXp

Rejected == resp.status \in {400, 404}

\* C21: a rejected request (blank or duplicate add, get, delete or mark-done
\* of an unknown short, mark-done already done today, purchase with xp < 50,
\* import without a habits object) writes nothing: habits, xp and freezes
\* after it are what they were before it; and the server goes on serving.
C21_RejectedWritesNothing ==
    /\ [][resp'.status \in {400, 404} =>
             /\ habits' = habits
             /\ xp' = xp
             /\ freezes' = freezes]_vars
    /\ [](Rejected => ENABLED (Export /\ UNCHANGED around))

\* An import without a habits object was rejected while a habit with a streak
\* and some xp were stored.
C21_Witness ==
    /\ resp.route = "import"
    /\ resp.status = 400
    /\ Len(habits) = 1
    /\ habits[1].streak > 0
    /\ xp > 0

\* C22: DELETE /habits/:short of an absent short is rejected with 404 and
\* changes nothing; of a present short it removes exactly that habit and
\* leaves xp, freezes and every other habit as they were.
C22_DeleteHabit ==
    [][resp'.route = "delete" =>
        /\ xp' = xp
        /\ freezes' = freezes
        /\ ~Has(habits, resp'.short) =>
              resp'.status = 404 /\ habits' = habits
        /\ Has(habits, resp'.short) =>
              /\ resp'.status = 200
              /\ habits' = SelectSeq(habits, LAMBDA h : h.short # resp'.short)
              /\ Len(habits') = Len(habits) - 1
      ]_vars

\* A habit was deleted; the other habit keeps its streak and the xp both
\* had earned is still there.
C22_Witness ==
    /\ resp.route = "delete"
    /\ resp.status = 200
    /\ Len(habits) = 1
    /\ habits[1].short = "b"
    /\ habits[1].streak = 1
    /\ xp >= 2 * BaseXp

\* What the claim takes a well-typed property to be.
IsMapping(v) == v.kind = "object"
IsNumber(v) == v.kind = "number"

\* C23: loading never fails: with no file, unparseable contents or contents
\* that are not an object it yields habits {}, xp 0, freezes 1; with an object
\* in which one of habits, xp, freezes is missing or of the wrong type, that
\* field gets its default and the other stored fields are kept.
C23_LoadDefaults ==
    loaded # NotLoaded =>
        IF file.state # "json" \/ ~IsMapping(file.top)
        THEN loaded = Defaults
        ELSE /\ loaded.habits =
                  IF IsMapping(file.habits) THEN file.habits ELSE JObj(<<>>)
             /\ loaded.xp = IF IsNumber(file.xp) THEN file.xp ELSE JNum(0)
             /\ loaded.freezes =
                  IF IsNumber(file.freezes) THEN file.freezes
                  ELSE JNum(InitFreezes)

\* C24: the sweep takes a freeze token only to protect a positive streak: the
\* tokens a sweep consumes are no more than the habits that enter it with a
\* gap of two days and a streak above 0.
C24_TokenOnlyForStreak ==
    [][resp'.route \in {"status", "habits"} =>
          freezes - freezes' <= Cardinality(Standing(habits, now, off, 2))
      ]_vars

\* The habits of hs whose gap at instant t is n.
AtGap(hs, t, o, n) == {i \in 1..Len(hs) : GapIs(hs[i], t, o, n)}

Min(a, b) == IF a <= b THEN a ELSE b

\* C25: one sweep over k habits last done exactly two days ago, with f tokens
\* at hand, consumes exactly min(k, f) tokens; exactly min(k, f) of those
\* habits are forgiven and keep their streak, and the others get streak 0.
C25_MinTokens ==
    [][resp'.route \in {"status", "habits"} =>
          LET K == AtGap(habits, now, off, 2)
              m == Min(Cardinality(K), freezes)
          IN  /\ freezes' = freezes - m
              /\ \E F \in SUBSET K :
                    /\ Cardinality(F) = m
                    /\ \A i \in F : habits'[i] = habits[i]
                    /\ \A i \in K \ F : habits'[i].streak = 0
      ]_vars

\* One sweep met two habits at a gap of two days with a single token: the
\* first keeps its streak, the second is reset.
C25_Witness ==
    /\ Swept
    /\ Cardinality(AtGap(habits, now, off, 2)) = 2
    /\ hist.freezes = 1
    /\ freezes = 0
    /\ habits[1].streak > 0
    /\ habits[2].streak = 0

\* One sweep met two habits at a gap of two days with two tokens.
C25_BothForgiven ==
    /\ Swept
    /\ Cardinality(Standing(habits, now, off, 2)) = 2
    /\ hist.freezes = 2
    /\ freezes = 0

\* C26: a successful mark-done changes only the target habit's streak and
\* lastDone, xp (raised by the award, at least 10) and the freezes (lowered
\* by at most 1); every other habit is as it was; afterwards the target has
\* streak >= 1 and a lastDone; a target whose stored lastDone lies in the
\* future restarts at streak 1 with an award of 10.
C26_DoneFrame ==
    [][(resp'.route = "done" /\ resp'.status = 200) =>
          LET i == Idx(habits, resp'.short)
          IN  /\ Len(habits') = Len(habits)
              /\ \A j \in 1..Len(habits) : j # i => habits'[j] = habits[j]
              /\ habits'[i] = [habits[i] EXCEPT
                                  !.streak = habits'[i].streak,
                                  !.lastDone = habits'[i].lastDone]
              /\ habits'[i].streak >= 1
              /\ habits'[i].lastDone # NoDate
              /\ resp'.xpGain >= BaseXp
              /\ xp' = xp + resp'.xpGain
              /\ freezes' \in {freezes, freezes - 1}
              /\ (habits[i].lastDone # NoDate
                  /\ DayDiff(habits[i].lastDone, now, off) < 0)
                    => habits'[i].streak = 1 /\ resp'.xpGain = BaseXp
      ]_vars

\* Habit a, stored with a future lastDone and streak 2, was marked done and
\* restarted at 1; habit b beside it still has its streak.
C26_Witness ==
    /\ DoneOk("a")
    /\ hist.hasGap
    /\ hist.gap < 0
    /\ hist.streak = 2
    /\ Len(habits) = 2
    /\ Get(habits, "a").streak = 1
    /\ Get(habits, "b").streak = 1
    /\ xp = hist.xp + BaseXp

====
